---- MODULE Spec2Model ----
(***************************************************************************)
(* notai.py: a batch driver that, for every token of token.txt, logs in,   *)
(* claims the daily reward, runs the missions, buys level and tapping      *)
(* upgrades and runs the auto-tap loop.  The program is one sequential     *)
(* coroutine; a state of the model is the coroutine's position (pc) right  *)
(* before a remote call, and every action is one remote call with one of   *)
(* the responses the service can give, followed by the code that runs up   *)
(* to the next remote call.                                                *)
(***************************************************************************)
EXTENDS Integers, Sequences, FiniteSets, TLC

\* ------------------------------------------------------------------ bounds
MaxMissions == 2
MaxRequested == 2
MaxRounds == 1
MaxRefills == 1

\* ------------------------------------------------------- program constants
max_consecutive_failures == 5

\* @limits(calls=5, period=10); times are in tenths of a second
LimitCalls == 5
LimitPeriod == 100

\* asyncio.sleep(...) of the pacing delays, in tenths of a second
DailyDelay == 20
MissionDelay == 50
UpgradeDelay == 20
BoostDelay == 10
RetryDelay == 50
RefillDelay == 20
JitterMin == 8
JitterMax == 11
AccountDelay == 100

\* refill_threshold = 0.875, kept as the exact fraction ThresholdNum / ThresholdDen
ThresholdNum == 875
ThresholdDen == 1000

\* ------------------------------------------------------------ Python values
\* Optional values are sets of at most one element: None is {}.
None == {}
Some(v) == {v}
TheValue(o) == CHOOSE v \in o : TRUE

\* A JSON scalar is tagged with its type, so that the number 100 and the
\* string "100" are different values, as they are for Python's == and !=.
PyStr(s) == <<"str", s>>
PyInt(s) == <<"int", s>>

\* str.lower() on the answers validate_input lets through
Lower(s) == CASE s = "Y" -> "y"
              [] s = "N" -> "n"
              [] OTHER -> s

\* str.strip() on the lines of token.txt
Strip(line) == CASE line = "tokA\n" -> "tokA"
                 [] line = "tokB\n" -> "tokB"
                 [] line = " \n" -> ""
                 [] line = "\n" -> ""
                 [] OTHER -> line

\* bool(username): None and the empty string are falsy
Truthy(u) == u # None /\ u # Some("")

\* -------------------------------------------------------------- the inputs
Answers == {"Y", "n"}
Requested == {0, MaxRequested}

NoFile == <<"<missing>">>
TokenFiles == {NoFile, <<"tokA\n", "tokB\n">>}
\* token files with a blank line, or a line of blanks, among the tokens
BlankLineFiles == {<<"tokA\n", "\n">>, <<" \n", "tokB\n">>}

\* Responses of GET /missions: each mission carries completedPercent as the
\* string "100", the number 100 or the string "50", or lacks the key.
MissionShapes == {[label |-> "m", completedPercent |-> PyStr("100")],
                  [label |-> "m", completedPercent |-> PyInt("100")],
                  [label |-> "m", completedPercent |-> PyStr("50")],
                  [label |-> "m"]}
MissionLists == UNION {[1..k -> MissionShapes] : k \in 0..MaxMissions}

VARIABLES
    pc,                     \* position of the coroutine
    tokens,                 \* process_accounts: file.readlines(), or NoFile
    idx,                    \* process_accounts: index of the current token
    token,                  \* process_account: the stripped token
    auto_upgrade, upgrade_count, auto_upgrade_tapping,
    damage_upgrade_count, limit_upgrade_count, auto_tapping,
    username,               \* process_account: login()'s result
    user_stats,             \* process_account: the UserStats record
    missions, mi,           \* process_missions: the list and the loop index
    upgrades,               \* process_account: damage_upgrade and limit_upgrade
    ui,                     \* process_account: i of the running upgrade loop
    loop,                   \* the running upgrade loop's purchase calls so far
    consecutive_failures,   \* auto_play_game
    status,                 \* auto_play_game: current_clicks and total_limit
    boosts, bi,             \* get_boosts()'s list and the boost being handled
    rounds,                 \* boost passes and answered status fetches so far
    since_boost_check,      \* whether time has passed since last_boost_check
    fails,                  \* failed fetches and taps since the last good tap
    exit,                   \* how the body of process_account ended
    both,                   \* missions whose complete and claim both succeeded
    call,                   \* the remote call the latest step issued
    timed,                  \* whether dispatch times are recorded
    window,                 \* ages of the calls dispatched in the last LimitPeriod
    reported,               \* currentClickedCount in the latest answered tap
    server                  \* the service's counts for the account, or None

config == <<auto_upgrade, upgrade_count, auto_upgrade_tapping,
            damage_upgrade_count, limit_upgrade_count, auto_tapping>>
account == <<tokens, idx, token>>
locals == <<missions, mi, upgrades, ui>>
autoplay == <<consecutive_failures, status, boosts, bi, rounds,
              since_boost_check, fails>>
service == <<reported, server>>
vars == <<pc, account, config, username, user_stats, locals, loop, autoplay,
          exit, both, call, timed, window, service>>

NoCall == [op |-> "none", acct |-> 0, out |-> "none"]
Call(op, out) == [op |-> op, acct |-> idx, out |-> out]

\* UserStats(username=...): the dataclass defaults
UserStats == [initial_level |-> None, final_level |-> None,
              damage_upgrades |-> 0, limit_upgrades |-> 0,
              missions_completed |-> 0, taps_performed |-> 0]

\* damage_upgrade / limit_upgrade: the entry found, or None
NoUpgrades == [damage |-> None, limit |-> None]

\* The purchase calls of the running upgrade loop: how many were made, how
\* many were answered 201 with a readable level, and the level in the latest
\* such answer.
NoLoop == [calls |-> 0, ok |-> 0, last |-> None]

\* ------------------------------------------------------------------ time
\* Every session.get / session.post is dispatched at once: no call site goes
\* through rate_limited_api_call.  A call enters the window with age 0; time
\* passes in the sleeps only (the fastest dispatch the code allows).
RECURSIVE Elapse(_, _)
Elapse(w, d) ==
    IF w = <<>> THEN <<>>
    ELSE IF Head(w) + d >= LimitPeriod THEN <<>>
    ELSE <<Head(w) + d>> \o Elapse(Tail(w), d)

Dispatch(w) == SubSeq(<<0>> \o w, 1, IF Len(w) > LimitCalls THEN LimitCalls + 1 ELSE Len(w) + 1)

\* the window after a remote call followed by sleeps of d in all
Tick(d) == IF timed THEN Elapse(Dispatch(window), d) ELSE window
\* the window after sleeps of d with no remote call
Pause(d) == IF timed THEN Elapse(window, d) ELSE window

\* ------------------------------------------------------------ __main__
Inputs ==
    /\ tokens \in TokenFiles
    /\ auto_upgrade \in Answers
    /\ upgrade_count \in Requested \cup {1}
    /\ upgrade_count = 1 <=> Lower(auto_upgrade) # "y"
    /\ auto_upgrade_tapping \in Answers
    /\ damage_upgrade_count \in Requested
    /\ limit_upgrade_count \in Requested
    /\ Lower(auto_upgrade_tapping) # "y" =>
           damage_upgrade_count = 0 /\ limit_upgrade_count = 0
    /\ auto_tapping \in Answers

Start ==
    /\ pc = "start"
    /\ idx = 0
    /\ token = ""
    /\ username = None
    /\ user_stats = UserStats
    /\ missions = <<>>
    /\ mi = 0
    /\ upgrades = NoUpgrades
    /\ ui = 0
    /\ loop = NoLoop
    /\ consecutive_failures = 0
    /\ status = None
    /\ boosts = <<>>
    /\ bi = 0
    /\ rounds = 0
    /\ since_boost_check = "none"
    /\ fails = 0
    /\ exit = "none"
    /\ both = 0
    /\ call = NoCall
    /\ window = <<>>
    /\ reported = None

Init == Inputs /\ Start /\ timed = FALSE /\ server = None

\* --------------------------------------------------------- process_accounts
\* (the error logged, the batch run all the same)
AfterReadIgnoresError(toks) == "for"
\* except FileNotFoundError / IOError: logger.error(...); return
AfterRead(toks) == IF toks = NoFile THEN "done" ELSE "for"

ReadTokens ==
    /\ pc = "start"
    /\ pc' = AfterRead(tokens)
    /\ call' = NoCall
    /\ loop' = NoLoop
    /\ UNCHANGED <<account, config, autoplay, exit, both, username, user_stats, locals,
                   timed, window, service>>

\* for token in tokens: token = token.strip(); process_account(...)
ForToken ==
    /\ pc = "for"
    /\ IF idx < Len(tokens)
         THEN /\ idx' = idx + 1
              /\ token' = Strip(tokens[idx + 1])
              /\ pc' = "login"
         ELSE /\ pc' = "done"
              /\ UNCHANGED <<idx, token>>
    /\ username' = None
    /\ user_stats' = UserStats
    /\ call' = NoCall
    /\ loop' = NoLoop
    /\ fails' = 0
    /\ exit' = "none"
    /\ both' = 0
    /\ reported' = None
    /\ UNCHANGED <<tokens, config, locals, consecutive_failures, status, boosts, bi,
                   rounds, since_boost_check, timed, window, server>>

\* ---------------------------------------------------------- process_account
\* (the exception leaves process_account and ends the batch)
ExceptTargetPropagates == "done"
\* except Exception as e: logger.error(...), then the code after the try
ExceptTarget == "finish"

AfterSummary == IF Lower(auto_tapping) = "y" THEN "ap_top" ELSE "finish"
AfterLevels == IF Lower(auto_upgrade_tapping) = "y" THEN "upgrades_fetch" ELSE AfterSummary
\* (auto-tap started ahead of the upgrade blocks)
AfterMissionsTapFirst ==
    IF Lower(auto_tapping) = "y" THEN "ap_top"
    ELSE IF Lower(auto_upgrade) = "y" THEN "levels_fetch" ELSE AfterLevels
AfterMissions == IF Lower(auto_upgrade) = "y" THEN "levels_fetch" ELSE AfterLevels

\* login(): the nickname, or None
LoginOutcomes == {"error", "no_nickname", "empty_nickname", "ok"}
login(out) == CASE out = "ok" -> Some("alice")
                [] out = "empty_nickname" -> Some("")
                [] OTHER -> None

\* (the early return left out)
AfterLoginIgnoresFailure(u) == "daily_info"
\* if not username: return
AfterLogin(u) == IF ~Truthy(u) THEN "for" ELSE "daily_info"

Login ==
    /\ pc = "login"
    /\ \E out \in LoginOutcomes :
          /\ username' = login(out)
          /\ pc' = AfterLogin(login(out))
          /\ call' = Call("login", out)
    /\ user_stats' = UserStats
    /\ window' = Tick(0)
    /\ loop' = NoLoop
    /\ UNCHANGED <<account, config, autoplay, exit, both, locals, timed, service>>

\* claim_daily(): GET today-info, then POST claim unless todayClaimed
DailyOutcomes == {"error", "malformed", "claimed", "unclaimed"}

DailyInfo ==
    /\ pc = "daily_info"
    /\ \E out \in DailyOutcomes :
          /\ call' = Call("daily_info", out)
          /\ IF out = "unclaimed"
               THEN pc' = "daily_claim" /\ window' = Tick(0)
               ELSE pc' = "missions_fetch" /\ window' = Tick(DailyDelay)
    /\ loop' = NoLoop
    /\ UNCHANGED <<account, config, autoplay, exit, both, username, user_stats, locals, timed, service>>

DailyClaim ==
    /\ pc = "daily_claim"
    /\ \E out \in {"ok", "error"} : call' = Call("daily_claim", out)
    /\ pc' = "missions_fetch"
    /\ window' = Tick(DailyDelay)
    /\ loop' = NoLoop
    /\ UNCHANGED <<account, config, autoplay, exit, both, username, user_stats, locals, timed, service>>

\* ---------------------------------------------------------- process_missions
\* if mission['completedPercent'] != "100"
NeedsComplete(mission) == mission.completedPercent # PyStr("100")

\* The for loop from mission i on, up to the next remote call: missions that
\* compare equal to "100" are skipped with a sleep each; a mission without
\* the key raises KeyError.
RECURSIVE MissionLoop(_, _, _)
MissionLoop(ms, i, slept) ==
    IF i > Len(ms) THEN [kind |-> "end", i |-> 0, sleep |-> slept]
    ELSE IF "completedPercent" \notin DOMAIN ms[i]
        THEN [kind |-> "raise", i |-> 0, sleep |-> slept]
    ELSE IF NeedsComplete(ms[i]) THEN [kind |-> "call", i |-> i, sleep |-> slept]
    ELSE MissionLoop(ms, i + 1, slept + MissionDelay)

\* control goes to mission i of ms after sleeping `slept` since the last call
GotoMission(ms, i, slept) ==
    LET step == MissionLoop(ms, i, slept) IN
    /\ pc' = CASE step.kind = "call" -> "mission_complete"
               [] step.kind = "raise" -> ExceptTarget
               [] OTHER -> AfterMissions
    /\ mi' = step.i
    /\ missions' = IF step.kind = "call" THEN ms ELSE <<>>
    /\ exit' = IF step.kind = "raise" THEN "raised" ELSE exit
    /\ window' = Tick(step.sleep)

MissionsFetch ==
    /\ pc = "missions_fetch"
    /\ \E ok \in BOOLEAN, ms \in MissionLists :
          /\ ~ok => ms = <<>>
          /\ call' = Call("missions_fetch", IF ok THEN "ok" ELSE "error")
          /\ GotoMission(ms, 1, 0)
    /\ loop' = NoLoop
    /\ UNCHANGED <<account, config, autoplay, both, username, user_stats, upgrades, ui, timed, service>>

\* (any answered call taken for a success)
complete_missionAnyAnswer(out) == out # "error"
\* complete_mission(): True iff the response says success
complete_mission(out) == out = "success"
\* claim_mission_reward(): True iff the status is 201
claim_mission_reward(out) == out = "201"

MissionComplete ==
    /\ pc = "mission_complete"
    /\ \E out \in {"success", "no_success", "error"} :
          /\ call' = Call("mission_complete", out)
          /\ IF complete_mission(out)
               THEN /\ pc' = "mission_claim"
                    /\ window' = Tick(0)
                    /\ UNCHANGED <<missions, mi, exit>>
               ELSE GotoMission(missions, mi + 1, MissionDelay)
    /\ loop' = NoLoop
    /\ UNCHANGED <<account, config, autoplay, both, username, user_stats, upgrades, ui, timed, service>>

\* (the increment moved out of the inner if)
CountMissionAlways(stats, claimed) == [stats EXCEPT !.missions_completed = @ + 1]
\* if await claim_mission_reward(...): user_stats.missions_completed += 1
CountMission(stats, claimed) ==
    IF claimed THEN [stats EXCEPT !.missions_completed = @ + 1] ELSE stats

MissionClaim ==
    /\ pc = "mission_claim"
    /\ \E out \in {"201", "other", "error"} :
          /\ call' = Call("mission_claim", out)
          /\ user_stats' = CountMission(user_stats, claim_mission_reward(out))
          /\ both' = IF call.op = "mission_complete" /\ call.out = "success" /\ out = "201"
                        THEN both + 1 ELSE both
    /\ GotoMission(missions, mi + 1, MissionDelay)
    /\ loop' = NoLoop
    /\ UNCHANGED <<account, config, autoplay, username, upgrades, ui, timed, service>>

\* ------------------------------------------------------------ upgrade loops
\* Responses of GET /levels: a list of levels, the last being the current one
LevelLists == {<<>>,
               <<[level |-> 1]>>,
               <<[level |-> 2], [level |-> 1]>>,
               <<[name |-> "x"]>>}
\* the level a successful purchase reports
PurchaseLevels == {2, 3}
\* Responses of a purchase POST: 201 with a body that has 'level', 201 with a
\* body that is not JSON, 201 with a JSON body without 'level', 402, another
\* status, or no response at all.
PurchaseOutcomes == {"201", "201_unreadable", "201_no_level", "402", "other", "error"}

\* (the break left out)
LoopGoesOnAfterFailure(success, i, n) == i + 1 < n
\* for i in range(n): ... if success: ... else: break -- whether the loop
\* body runs again after iteration i
LoopGoesOn(success, i, n) == success /\ i + 1 < n

\* upgrade_level(): (success, new level) and the user_stats it leaves
upgrade_level(stats, out, lvl) ==
    IF out = "201"
      THEN [success |-> TRUE, level |-> Some(lvl),
            stats |-> [stats EXCEPT !.final_level = Some(lvl)]]
      ELSE [success |-> FALSE, level |-> None, stats |-> stats]

\* upgrade_tapping(): the counter is incremented once the 201 body is parsed,
\* before result['level'] is read for the return value
upgrade_tapping(stats, upgrade_type, out) ==
    LET counted == out \in {"201", "201_no_level"}
        bumped == CASE upgrade_type = "Damage" ->
                         [stats EXCEPT !.damage_upgrades = @ + 1]
                    [] upgrade_type = "Limit energy" ->
                         [stats EXCEPT !.limit_upgrades = @ + 1]
                    [] OTHER -> stats
    IN [success |-> out = "201", stats |-> IF counted THEN bumped ELSE stats]

\* the loop's record after one more purchase call; iteration 0 starts it
Counted(out, lvl) ==
    LET before == IF ui = 0 THEN NoLoop ELSE loop IN
    [calls |-> before.calls + 1,
     ok |-> IF out = "201" THEN before.ok + 1 ELSE before.ok,
     last |-> IF out = "201" THEN Some(lvl) ELSE before.last]

\* what get_levels / get_tapping_upgrades hands back: the call failed and the
\* helper returned [], the service answered with an empty list, or it listed
\* something
ListOutcome(ok, list) ==
    IF ~ok THEN "error" ELSE IF list = <<>> THEN "empty" ELSE "ok"

LevelsFetch ==
    /\ pc = "levels_fetch"
    /\ \E ok \in BOOLEAN, levels \in LevelLists :
          /\ ~ok => levels = <<>>
          /\ call' = Call("levels_fetch", ListOutcome(ok, levels))
          /\ IF levels = <<>>
               THEN pc' = AfterLevels /\ user_stats' = user_stats /\ exit' = exit
               ELSE IF "level" \notin DOMAIN levels[Len(levels)]
               THEN pc' = ExceptTarget /\ user_stats' = user_stats /\ exit' = "raised"
               ELSE /\ exit' = exit
                    /\ user_stats' =
                          [user_stats EXCEPT
                              !.initial_level = Some(levels[Len(levels)].level),
                              !.final_level = Some(levels[Len(levels)].level)]
                    /\ pc' = IF upgrade_count > 0 THEN "level_buy" ELSE AfterLevels
    /\ ui' = 0
    /\ loop' = NoLoop
    /\ window' = Tick(0)
    /\ UNCHANGED <<account, config, autoplay, both, username, missions, mi, upgrades, timed, service>>

LevelBuy ==
    /\ pc = "level_buy"
    /\ \E out \in PurchaseOutcomes, lvl \in PurchaseLevels :
          LET r == upgrade_level(user_stats, out, lvl) IN
          /\ out # "201" => lvl = 2
          /\ call' = Call("level_buy", out)
          /\ loop' = Counted(out, lvl)
          /\ user_stats' = IF r.success
                             THEN [r.stats EXCEPT !.final_level = r.level]
                             ELSE r.stats
          /\ IF LoopGoesOn(r.success, ui, upgrade_count)
               THEN pc' = "level_buy" /\ ui' = ui + 1
               ELSE pc' = AfterLevels /\ ui' = 0
          /\ window' = Tick(IF r.success THEN UpgradeDelay ELSE 0)
    /\ UNCHANGED <<account, config, autoplay, exit, both, username, missions, mi, upgrades, timed, service>>

\* Responses of GET /boost/card: entries with a boostType, or one without
UpgradeLists == {<<>>,
                 <<[id |-> "d", boostType |-> "CLICKER_DAMAGE"]>>,
                 <<[id |-> "e", boostType |-> "CLICKER_ENERGY"]>>,
                 <<[id |-> "e", boostType |-> "CLICKER_ENERGY"],
                   [id |-> "d", boostType |-> "CLICKER_DAMAGE"]>>,
                 <<[id |-> "x", boostType |-> "OTHER"]>>,
                 <<[id |-> "bad"]>>}

\* next((u for u in upgrades if u['boostType'] == boost_type), None)
RECURSIVE FindUpgrade(_, _, _)
FindUpgrade(ups, boost_type, i) ==
    IF i > Len(ups) THEN [raised |-> FALSE, found |-> None]
    ELSE IF "boostType" \notin DOMAIN ups[i] THEN [raised |-> TRUE, found |-> None]
    ELSE IF ups[i].boostType = boost_type
        THEN [raised |-> FALSE, found |-> Some(ups[i].id)]
    ELSE FindUpgrade(ups, boost_type, i + 1)

\* (a failed damage purchase leaving the whole tapping-upgrade block)
AfterDamageSkipsLimit(ups) == AfterSummary
\* if limit_upgrade: for i in range(limit_upgrade_count): ...
AfterDamage(ups) ==
    IF ups.limit # None /\ limit_upgrade_count > 0 THEN "limit_buy" ELSE AfterSummary
\* (the test `if damage_upgrade:` left out)
AfterUpgradesFetchAnyType(ups) ==
    IF damage_upgrade_count > 0 THEN "damage_buy" ELSE AfterDamage(ups)
\* if damage_upgrade: for i in range(damage_upgrade_count): ...
AfterUpgradesFetch(ups) ==
    IF ups.damage # None /\ damage_upgrade_count > 0 THEN "damage_buy" ELSE AfterDamage(ups)

\* the locals of the tapping-upgrade block are live in its two loops only
KeepUpgrades(ups, target) ==
    IF target \in {"damage_buy", "limit_buy"} THEN ups ELSE NoUpgrades

\* the upgrade types a listing holds, for a listing whose entries all carry
\* 'boostType'
ListedTypes(ups) == {ups[k].boostType : k \in 1..Len(ups)}
\* the outcome of get_tapping_upgrades, by the tapping upgrades it lists
UpgradesOutcome(ok, ups) ==
    IF ListOutcome(ok, ups) # "ok" THEN ListOutcome(ok, ups)
    ELSE IF \E k \in 1..Len(ups) : "boostType" \notin DOMAIN ups[k] THEN "malformed"
    ELSE IF {"CLICKER_DAMAGE", "CLICKER_ENERGY"} \subseteq ListedTypes(ups) THEN "both"
    ELSE IF "CLICKER_DAMAGE" \in ListedTypes(ups) THEN "damage"
    ELSE IF "CLICKER_ENERGY" \in ListedTypes(ups) THEN "energy"
    ELSE "neither"

UpgradesFetch ==
    /\ pc = "upgrades_fetch"
    /\ \E ok \in BOOLEAN, ups \in UpgradeLists :
          LET d == FindUpgrade(ups, "CLICKER_DAMAGE", 1)
              l == FindUpgrade(ups, "CLICKER_ENERGY", 1)
              found == [damage |-> d.found, limit |-> l.found]
              target == IF ups = <<>> THEN AfterSummary
                        ELSE IF d.raised \/ l.raised THEN ExceptTarget
                        ELSE AfterUpgradesFetch(found)
          IN
          /\ ~ok => ups = <<>>
          /\ call' = Call("upgrades_fetch", UpgradesOutcome(ok, ups))
          /\ pc' = target
          /\ upgrades' = KeepUpgrades(found, target)
          /\ exit' = IF ups # <<>> /\ (d.raised \/ l.raised) THEN "raised" ELSE exit
    /\ ui' = 0
    /\ loop' = NoLoop
    /\ window' = Tick(0)
    /\ UNCHANGED <<account, config, autoplay, both, username, user_stats, missions, mi, timed, service>>

DamageBuy ==
    /\ pc = "damage_buy"
    /\ \E out \in PurchaseOutcomes :
          LET r == upgrade_tapping(user_stats, "Damage", out)
              target == IF LoopGoesOn(r.success, ui, damage_upgrade_count)
                          THEN "damage_buy" ELSE AfterDamage(upgrades)
          IN
          /\ call' = Call("damage_buy", out)
          /\ loop' = Counted(out, 0)
          /\ user_stats' = r.stats
          /\ pc' = target
          /\ ui' = IF target = "damage_buy" THEN ui + 1 ELSE 0
          /\ upgrades' = KeepUpgrades(upgrades, target)
          /\ window' = Tick(IF r.success THEN UpgradeDelay ELSE 0)
    /\ UNCHANGED <<account, config, autoplay, exit, both, username, missions, mi, timed, service>>

LimitBuy ==
    /\ pc = "limit_buy"
    /\ \E out \in PurchaseOutcomes :
          LET r == upgrade_tapping(user_stats, "Limit energy", out)
              target == IF LoopGoesOn(r.success, ui, limit_upgrade_count)
                          THEN "limit_buy" ELSE AfterSummary
          IN
          /\ call' = Call("limit_buy", out)
          /\ loop' = Counted(out, 0)
          /\ user_stats' = r.stats
          /\ pc' = target
          /\ ui' = IF target = "limit_buy" THEN ui + 1 ELSE 0
          /\ upgrades' = KeepUpgrades(upgrades, target)
          /\ window' = Tick(IF r.success THEN UpgradeDelay ELSE 0)
    /\ UNCHANGED <<account, config, autoplay, exit, both, username, missions, mi, timed, service>>

\* ------------------------------------------------------------ auto_play_game
\* Responses of POST /game-clicker/submit with clickedCount 0
StatusShapes == {[currentClickedCount |-> 80, totalClicksLimit |-> 100],
                 [currentClickedCount |-> 88, totalClicksLimit |-> 100],
                 [currentClickedCount |-> 100, totalClicksLimit |-> 100],
                 [currentClickedCount |-> 7, totalClicksLimit |-> 8],
                 [currentClickedCount |-> 0, totalClicksLimit |-> 0],
                 [currentClickedCount |-> -8, totalClicksLimit |-> -8],
                 [currentClickedCount |-> 80]}
\* currentClickedCount in the response to a tap batch
TapCounts == {95, 70}
\* Responses of GET /boost-modification
BoostLists == {<<>>,
               <<[id |-> "r", type |-> "REFILL_ENERGY", available |-> 0]>>,
               <<[id |-> "t", type |-> "TURBO", available |-> 1],
                 [id |-> "r", type |-> "REFILL_ENERGY", available |-> 1]>>,
               <<[id |-> "bad"]>>}
\* Responses of GET /boost-modification/active, as the list of active types
ActiveLists == {<<>>, <<"TURBO">>, <<"REFILL_ENERGY">>}

\* A service that keeps the account's counts: the click count changes only by
\* an answered tap, which raises it, and by a refill, which spends one of the
\* account's refill boosts and lowers the count; the limit stays as it is.
ServerStates == {[clicks |-> 5, limit |-> 8, refills |-> r] : r \in 0..MaxRefills}
                \cup {[clicks |-> -9, limit |-> -8, refills |-> 0]}

\* the status bodies the service can answer with
StatusAnswers ==
    IF server = None THEN StatusShapes
    ELSE {[currentClickedCount |-> TheValue(server).clicks,
           totalClicksLimit |-> TheValue(server).limit]}
\* currentClickedCount in the answer to a tap batch
TapAnswers ==
    IF server = None THEN TapCounts ELSE {TheValue(server).clicks + 1}
\* the boost lists the service can answer with: the REFILL_ENERGY entry is
\* available iff the account has a refill boost left
BoostAnswers ==
    IF server = None THEN BoostLists
    ELSE IF TheValue(server).refills > 0
      THEN {<<[id |-> "t", type |-> "TURBO", available |-> 1],
              [id |-> "r", type |-> "REFILL_ENERGY", available |-> TheValue(server).refills]>>}
      ELSE {<<[id |-> "r", type |-> "REFILL_ENERGY", available |-> 0]>>}
\* the service after an answered tap
Tapped(sv, new_click_count) ==
    IF sv = None THEN None ELSE Some([TheValue(sv) EXCEPT !.clicks = new_click_count])
\* the service after a purchase of the boost of this type that was accepted
Bought(sv, boost_type) ==
    IF sv = None \/ boost_type # "REFILL_ENERGY" THEN sv
    ELSE Some([TheValue(sv) EXCEPT !.clicks = @ - 2, !.refills = @ - 1])
\* the loop's count of boost passes and answered status fetches is bounded
\* where the answers are free; the service's counts bound the loop otherwise
InBudget == server # None \/ rounds < MaxRounds
Round(r) == IF server # None THEN r ELSE r + 1

\* (> in place of >=)
NearLimitStrict(current_clicks, total_limit) ==
    current_clicks * ThresholdDen > total_limit * ThresholdNum
\* current_clicks >= total_limit * refill_threshold
NearLimit(current_clicks, total_limit) ==
    current_clicks * ThresholdDen >= total_limit * ThresholdNum

\* (the hard cap tested ahead of the threshold)
AfterStatusCapFirst(current_clicks, total_limit) ==
    IF current_clicks >= total_limit THEN "freeze"
    ELSE IF NearLimit(current_clicks, total_limit) THEN "refill_fetch"
    ELSE "tap"
\* the branch the loop body takes on a fetched status
AfterStatus(current_clicks, total_limit) ==
    IF NearLimit(current_clicks, total_limit) THEN "refill_fetch"
    ELSE IF current_clicks >= total_limit THEN "freeze"
    ELSE "tap"

\* (the counter reset by any answered call)
AfterGoodStatusResets(failures) == 0
\* consecutive_failures after a status fetch that was answered: unchanged
AfterGoodStatus(failures) == failures
\* (the reset left out)
AfterGoodTapKeeps(failures) == failures
\* consecutive_failures after a tap batch that was answered
AfterGoodTap(failures) == 0
\* consecutive_failures += 1; if consecutive_failures >= max_consecutive_failures: return
Stops(failures) == failures + 1 >= max_consecutive_failures

\* (the reported count added in place of the difference)
CountTapsAbsolute(stats, new_click_count, current_clicks) ==
    [stats EXCEPT !.taps_performed = @ + new_click_count]
\* taps_performed = new_click_count - current_clicks;
\* user_stats.taps_performed += taps_performed
CountTaps(stats, new_click_count, current_clicks) ==
    [stats EXCEPT !.taps_performed = @ + (new_click_count - current_clicks)]

\* auto_play_game goes on to `target` with these values of its locals
Goto(target, failures, st, bs, i, r) ==
    /\ pc' = target
    /\ consecutive_failures' = failures
    /\ status' = st
    /\ boosts' = bs
    /\ bi' = i
    /\ rounds' = r
    /\ since_boost_check' = "some"
    /\ exit' = exit

\* auto_play_game returns (or an exception leaves it): its locals are gone
Return(target, reason) ==
    /\ pc' = target
    /\ exit' = reason
    /\ consecutive_failures' = 0
    /\ status' = None
    /\ boosts' = <<>>
    /\ bi' = 0
    /\ rounds' = 0
    /\ since_boost_check' = "none"

\* use_available_boosts: the for loop from boost i on, up to the next remote
\* call; boosts with available = 0 are passed over
RECURSIVE BoostLoop(_, _)
BoostLoop(bs, i) ==
    IF i > Len(bs) THEN [kind |-> "end", i |-> 0]
    ELSE IF "available" \notin DOMAIN bs[i] THEN [kind |-> "raise", i |-> 0]
    ELSE IF bs[i].available > 0 THEN [kind |-> "call", i |-> i]
    ELSE BoostLoop(bs, i + 1)

GotoBoost(bs, i, r, slept) ==
    LET step == BoostLoop(bs, i) IN
    /\ window' = Tick(slept)
    /\ CASE step.kind = "call" ->
              Goto("boost_active", consecutive_failures, status, bs, step.i, r)
         [] step.kind = "raise" -> Return(ExceptTarget, "raised")
         [] OTHER -> Goto("ap_status", consecutive_failures, status, <<>>, 0, r)

\* if current_time - last_boost_check >= boost_check_interval: false in the
\* first iteration; later the time the calls took decides, so the pass may
\* start at any iteration
BoostsFetch ==
    /\ pc = "ap_top"
    /\ since_boost_check = "some"
    /\ InBudget
    /\ \E ok \in BOOLEAN, bs \in BoostAnswers \cup {<<>>} :
          /\ ~ok => bs = <<>>
          /\ ok => bs \in BoostAnswers
          /\ call' = Call("boosts_fetch", IF ok THEN "ok" ELSE "error")
          /\ GotoBoost(bs, 1, Round(rounds), 0)
    /\ loop' = NoLoop
    /\ UNCHANGED <<account, config, both, username, user_stats, locals, fails, timed, service>>

\* use_boost: any(boost type == boost_type for boost in active_boosts)
IsActive(active, boost_type) == \E k \in 1..Len(active) : active[k] = boost_type

\* get_active_boosts: the list the service holds, or [] when the call fails
get_active_boosts(ok, active) == IF ok THEN active ELSE <<>>

\* the outcome of the listing call, with whether the service holds an active
\* boost of the type asked about
ActiveOutcome(ok, is_active) ==
    IF ok THEN (IF is_active THEN "active" ELSE "inactive")
    ELSE (IF is_active THEN "error_active" ELSE "error")

BoostActive ==
    /\ pc = "boost_active"
    /\ \E ok \in BOOLEAN, active \in ActiveLists :
          /\ call' = Call("boost_active",
                          ActiveOutcome(ok, IsActive(active, boosts[bi].type)))
          /\ IF IsActive(get_active_boosts(ok, active), boosts[bi].type)
               THEN GotoBoost(boosts, bi + 1, rounds, BoostDelay)
               ELSE /\ Goto("boost_buy", consecutive_failures, status, boosts, bi, rounds)
                    /\ window' = Tick(0)
    /\ loop' = NoLoop
    /\ UNCHANGED <<account, config, both, username, user_stats, locals, fails, timed, service>>

BoostBuy ==
    /\ pc = "boost_buy"
    /\ \E out \in {"ok", "error"} :
          /\ call' = Call("boost_buy", out)
          /\ server' = IF out = "ok" THEN Bought(server, boosts[bi].type) ELSE server
    /\ GotoBoost(boosts, bi + 1, rounds, BoostDelay)
    /\ loop' = NoLoop
    /\ UNCHANGED <<account, config, both, username, user_stats, locals, fails, timed,
                   reported>>

GetStatus ==
    /\ pc \in {"ap_top", "ap_status"}
    /\ \/ /\ call' = Call("status", "error")
          /\ fails' = fails + 1
          /\ IF Stops(consecutive_failures)
               THEN Return("finish", "failure") /\ window' = Tick(0)
               ELSE /\ Goto("ap_top", consecutive_failures + 1, None, <<>>, 0, rounds)
                    /\ window' = Tick(RetryDelay)
       \/ /\ InBudget
          /\ \E st \in StatusAnswers :
                IF DOMAIN st # {"currentClickedCount", "totalClicksLimit"}
                  THEN /\ call' = Call("status", "malformed")
                       /\ Return(ExceptTarget, "raised")
                  ELSE /\ call' = Call("status", "ok")
                       /\ Goto(AfterStatus(st.currentClickedCount, st.totalClicksLimit),
                               AfterGoodStatus(consecutive_failures), Some(st),
                               <<>>, 0, Round(rounds))
          /\ fails' = fails
          /\ window' = Tick(0)
    /\ loop' = NoLoop
    /\ UNCHANGED <<account, config, both, username, user_stats, locals, timed, service>>

\* get_refill_boost: next((b for b in boosts if b['type'] == 'REFILL_ENERGY'
\* and b['available'] > 0), None)
RECURSIVE FindRefill(_, _)
FindRefill(bs, i) ==
    IF i > Len(bs) THEN [kind |-> "none", i |-> 0]
    ELSE IF "type" \notin DOMAIN bs[i] THEN [kind |-> "raise", i |-> 0]
    ELSE IF bs[i].type # "REFILL_ENERGY" THEN FindRefill(bs, i + 1)
    ELSE IF "available" \notin DOMAIN bs[i] THEN [kind |-> "raise", i |-> 0]
    ELSE IF bs[i].available > 0 THEN [kind |-> "found", i |-> i]
    ELSE FindRefill(bs, i + 1)

\* (the loop goes on whatever use_refill_boost returned)
AfterRefillGoesOn(refilled) == "ap_top"
\* if await use_refill_boost(...): sleep(2); continue -- else: return
AfterRefill(refilled) == IF refilled THEN "ap_top" ELSE "finish"

\* the refill branch of the loop body once use_refill_boost has returned
RefillDone(refilled) ==
    IF AfterRefill(refilled) = "ap_top"
      THEN Goto("ap_top", consecutive_failures, None, <<>>, 0, rounds)
      ELSE Return(AfterRefill(refilled), "switch")

\* the fetched counts are not read again on the refill branch
RefillFetch ==
    /\ pc = "refill_fetch"
    /\ \E ok \in BOOLEAN, bs \in BoostAnswers \cup {<<>>} :
          LET r == FindRefill(bs, 1) IN
          /\ ~ok => bs = <<>>
          /\ ok => bs \in BoostAnswers
          /\ call' = Call("refill_fetch", IF ok THEN "ok" ELSE "error")
          /\ CASE r.kind = "found" ->
                    Goto("refill_buy", consecutive_failures, None, bs, r.i, rounds)
               [] r.kind = "raise" -> Return(ExceptTarget, "raised")
               [] OTHER -> RefillDone(FALSE)
    /\ window' = Tick(0)
    /\ loop' = NoLoop
    /\ UNCHANGED <<account, config, both, username, user_stats, locals, fails, timed, service>>

\* use_refill_boost: True iff the purchase is answered with a body that has 'id'
RefillBuy ==
    /\ pc = "refill_buy"
    /\ \E out \in {"ok", "no_id", "error"} :
          /\ call' = Call("refill_buy", out)
          /\ RefillDone(out = "ok")
          /\ server' = IF out \in {"ok", "no_id"}
                          THEN Bought(server, "REFILL_ENERGY") ELSE server
          /\ window' = Tick(IF out = "ok" THEN RefillDelay ELSE 0)
    /\ loop' = NoLoop
    /\ UNCHANGED <<account, config, both, username, user_stats, locals, fails, timed,
                   reported>>

Freeze ==
    /\ pc = "freeze"
    /\ \E out \in {"ok", "error"} : call' = Call("freeze", out)
    /\ Return("finish", "frozen")
    /\ window' = Tick(0)
    /\ loop' = NoLoop
    /\ UNCHANGED <<account, config, both, username, user_stats, locals, fails, timed, service>>

\* perform_tapping: the body, or None; an empty body is falsy in `if result:`
Tap ==
    /\ pc = "tap"
    /\ \/ \E out \in {"error", "empty_body"} :
            /\ call' = Call("tap", out)
            /\ fails' = fails + 1
            /\ user_stats' = user_stats
            /\ UNCHANGED service
            /\ IF Stops(consecutive_failures)
                 THEN Return("finish", "failure") /\ window' = Tick(0)
                 ELSE /\ Goto("ap_top", consecutive_failures + 1, None, <<>>, 0, rounds)
                      /\ \E jitter \in {JitterMin, JitterMax} : window' = Tick(jitter)
       \/ /\ server = None
          /\ call' = Call("tap", "malformed")
          /\ Return(ExceptTarget, "raised")
          /\ window' = Tick(0)
          /\ UNCHANGED <<fails, user_stats, service>>
       \/ \E new_click_count \in TapAnswers :
            /\ call' = Call("tap", "ok")
            /\ user_stats' = CountTaps(user_stats, new_click_count,
                                       TheValue(status).currentClickedCount)
            /\ reported' = Some(new_click_count)
            /\ server' = Tapped(server, new_click_count)
            /\ fails' = 0
            /\ Goto("ap_top", AfterGoodTap(consecutive_failures), None, <<>>, 0, rounds)
            /\ \E jitter \in {JitterMin, JitterMax} : window' = Tick(jitter)
    /\ loop' = NoLoop
    /\ UNCHANGED <<account, config, both, username, locals, timed>>

\* logger.info("Finished processing account..."); await asyncio.sleep(10)
FinishAccount ==
    /\ pc = "finish"
    /\ pc' = "for"
    /\ call' = NoCall
    /\ window' = Pause(AccountDelay)
    /\ loop' = NoLoop
    /\ UNCHANGED <<account, config, autoplay, exit, both, username, user_stats, locals, timed, service>>

Next ==
    \/ ReadTokens
    \/ ForToken
    \/ Login
    \/ DailyInfo
    \/ DailyClaim
    \/ MissionsFetch
    \/ MissionComplete
    \/ MissionClaim
    \/ LevelsFetch
    \/ LevelBuy
    \/ UpgradesFetch
    \/ DamageBuy
    \/ LimitBuy
    \/ BoostsFetch
    \/ BoostActive
    \/ BoostBuy
    \/ GetStatus
    \/ RefillFetch
    \/ RefillBuy
    \/ Freeze
    \/ Tap
    \/ FinishAccount

Spec == Init /\ [][Next]_vars

\* The same program with the dispatch times recorded, run on one token file
\* with every phase switched on.
InitTimed ==
    /\ Inputs
    /\ tokens # NoFile
    /\ Lower(auto_upgrade) = "y" /\ upgrade_count = MaxRequested
    /\ Lower(auto_upgrade_tapping) = "y"
    /\ damage_upgrade_count = MaxRequested /\ limit_upgrade_count = MaxRequested
    /\ Lower(auto_tapping) = "y"
    /\ Start
    /\ timed = TRUE
    /\ server = None

SpecTimed == InitTimed /\ [][Next]_vars

\* The same program run on a token file that has a blank line, with every
\* phase switched on.
InitBlankLines ==
    /\ tokens \in BlankLineFiles
    /\ auto_upgrade = "Y" /\ upgrade_count = MaxRequested
    /\ auto_upgrade_tapping = "Y"
    /\ damage_upgrade_count = MaxRequested /\ limit_upgrade_count = MaxRequested
    /\ auto_tapping = "Y"
    /\ Start
    /\ timed = FALSE
    /\ server = None

SpecBlankLines == InitBlankLines /\ [][Next]_vars

\* The same program run for one account against a service that keeps the
\* account's counts, with every phase switched on and one purchase requested
\* of each kind; the coroutine is always given its next step.
InitService ==
    /\ tokens = <<"tokA\n">>
    /\ auto_upgrade = "Y" /\ upgrade_count = 1
    /\ auto_upgrade_tapping = "Y"
    /\ damage_upgrade_count = 1 /\ limit_upgrade_count = 1
    /\ auto_tapping = "Y"
    /\ Start
    /\ timed = FALSE
    /\ server \in {Some(sv) : sv \in ServerStates}

SpecService == InitService /\ [][Next]_vars /\ WF_vars(Next)

\* ======================================================================
\* The claims
\* ======================================================================

\* C1: an account whose login fails (transport error or non-2xx status, or a
\* response without user.nickname) gets no call besides the login, and control
\* is back in the loop over the tokens, which ends only once every token has
\* been handed to process_account.
LoginFailures == {"error", "no_nickname"}
C1_FailedLoginSkipsAccount ==
    /\ (call.acct = idx /\ ~Truthy(username)) => call.op \in {"login", "none"}
    /\ (call.op = "login" /\ call.out \in LoginFailures) =>
           (username = None /\ pc = "for")
    /\ (pc = "done" /\ tokens # NoFile) => idx = Len(tokens)
C1_Witness ==
    /\ call = [op |-> "login", acct |-> 1, out |-> "no_nickname"]
    /\ pc = "for" /\ idx < Len(tokens)

\* C2: once 5 status fetches and taps have failed with no successful tap
\* between them, auto_play_game has returned through a failure return, and
\* the coroutine is past every remote call of the account: the latest call
\* is that failed fetch or tap.
C2_FiveFailuresStop ==
    /\ fails >= max_consecutive_failures =>
           (exit = "failure" /\ fails = max_consecutive_failures)
    /\ exit = "failure" =>
           /\ pc \in {"finish", "for"}
           /\ call.op \in {"status", "tap", "none"}
           /\ call.op # "none" => call.out \in {"error", "empty_body"}
C2_Witness ==
    /\ exit = "failure" /\ fails = max_consecutive_failures
    /\ call.op = "tap" /\ pc = "finish"

\* C3: right after an answered status fetch with counts (current, limit):
\* 8*current >= 7*limit leads to the refill attempt, otherwise current < limit
\* leads to the tap batch; the refill branch ends the iteration without a tap
\* and the tap branch ends it after the one tap without a refill attempt.
\* limit 100, current 88 refills; limit 100, current 80 taps.
C3_ThresholdBranch ==
    /\ (call.op = "status" /\ call.out = "ok") =>
          /\ status # None
          /\ LET c == TheValue(status).currentClickedCount
                 l == TheValue(status).totalClicksLimit
             IN /\ 8 * c >= 7 * l => pc = "refill_fetch"
                /\ (8 * c < 7 * l /\ c < l) => pc = "tap"
                /\ (c = 88 /\ l = 100) => pc = "refill_fetch"
                /\ (c = 80 /\ l = 100) => pc = "tap"
    /\ pc \in {"refill_fetch", "tap"} => (call.op = "status" /\ call.out = "ok")
    /\ call.op \in {"refill_fetch", "refill_buy"} => pc \in {"refill_buy", "ap_top", "finish"}
    /\ call.op = "tap" => pc \in {"ap_top", "finish"}
C3_Witness ==
    /\ call.op = "status"
    /\ status = Some([currentClickedCount |-> 88, totalClicksLimit |-> 100])
    /\ pc = "refill_fetch"

\* C4: in any window of LimitPeriod at most LimitCalls remote calls are
\* dispatched.
C4_RateLimit == Len(window) <= LimitCalls

\* C5: in each upgrade loop with requested count N, when the k-th purchase is
\* the first that does not succeed (402, another non-201 status, transport
\* error, unreadable 201 body), the loop has made exactly k calls and makes no
\* more, and k-1 successes are recorded (the counter, or final_level being the
\* level of the latest success, the initial level if there is none); when a
\* purchase succeeds the loop goes on up to N calls, and N successes are
\* recorded once all N succeeded.
EnumeratedFailures == {"402", "other", "error", "201_unreadable"}
LoopClaim(op, n, isRecorded(_)) ==
    call.op = op =>
       /\ loop.calls <= n
       /\ (call.out \in EnumeratedFailures /\ loop.ok = loop.calls - 1) =>
              (pc # op /\ isRecorded(loop.calls - 1))
       /\ (call.out = "201" /\ loop.ok = loop.calls) =>
              /\ isRecorded(loop.calls)
              /\ pc = op <=> loop.calls < n
DamageRecorded(k) == user_stats.damage_upgrades = k
LimitRecorded(k) == user_stats.limit_upgrades = k
LevelRecorded(k) ==
    /\ loop.ok = k
    /\ user_stats.final_level =
          IF k = 0 THEN user_stats.initial_level ELSE loop.last
C5_UpgradeLoops ==
    /\ LoopClaim("level_buy", upgrade_count, LevelRecorded)
    /\ LoopClaim("damage_buy", damage_upgrade_count, DamageRecorded)
    /\ LoopClaim("limit_buy", limit_upgrade_count, LimitRecorded)
C5_Witness ==
    /\ call.op = "damage_buy" /\ call.out = "402"
    /\ loop.calls = 2 /\ user_stats.damage_upgrades = 1
    /\ pc # "damage_buy"

\* C6: no complete or claim call is issued for a mission the listing reports
\* as 100 percent complete, be it the string "100" or the number 100.
C6_NoCallForCompleteMission ==
    pc \in {"mission_complete", "mission_claim"} =>
        missions[mi].completedPercent \notin {PyStr("100"), PyInt("100")}

\* C7: missions_completed is the number of missions of this account for which
\* the complete call reported success and the claim call returned 201.
C7_MissionsCompleted == user_stats.missions_completed = both
C7_Witness ==
    /\ call.op = "mission_claim" /\ call.out = "201"
    /\ user_stats.missions_completed = 2

\* C8: whatever fails or is malformed while an account is processed, the
\* exception ends at the end of process_account, the loop takes the tokens in
\* order, and the batch ends only after the last token.
C8_BatchSurvivesFailures ==
    /\ exit = "raised" => pc \in {"finish", "for"}
    /\ pc = "login" => (idx \in 1..Len(tokens) /\ token = Strip(tokens[idx]))
    /\ (pc = "done" /\ tokens # NoFile) => (idx = Len(tokens) /\ exit # "raised")
C8_Witness ==
    /\ exit = "raised" /\ pc = "for" /\ idx = 1 /\ Len(tokens) = 2

\* C9: within one account's processing the counts damage_upgrades,
\* limit_upgrades, missions_completed and taps_performed are never negative
\* and never decrease.
CountFields == {"damage_upgrades", "limit_upgrades", "missions_completed", "taps_performed"}
C9_CountsMonotone ==
    [][pc # "for" =>
          \A f \in CountFields :
              user_stats'[f] >= user_stats[f] /\ user_stats'[f] >= 0]_vars

\* C10: the calls of an account come phase by phase in the order login, daily
\* claim, missions, level upgrades, tapping upgrades, auto-tap, a phase being
\* passed over only if it is switched off; the first call of an account is its
\* login, and the next account starts only from the loop over the tokens.
PhaseRank(op) ==
    CASE op = "login" -> 1
      [] op \in {"daily_info", "daily_claim"} -> 2
      [] op \in {"missions_fetch", "mission_complete", "mission_claim"} -> 3
      [] op \in {"levels_fetch", "level_buy"} -> 4
      [] op \in {"upgrades_fetch", "damage_buy", "limit_buy"} -> 5
      [] OTHER -> 6
PhaseOn(r) ==
    CASE r = 4 -> Lower(auto_upgrade) = "y"
      [] r = 5 -> Lower(auto_upgrade_tapping) = "y"
      [] r = 6 -> Lower(auto_tapping) = "y"
      [] OTHER -> TRUE
C10_PhaseOrder ==
    [][/\ call'.op # "none" =>
            IF call.op = "none" THEN call'.op = "login" /\ call'.acct = idx
            ELSE /\ call'.acct = call.acct
                 /\ PhaseRank(call.op) <= PhaseRank(call'.op)
                 /\ PhaseOn(PhaseRank(call'.op))
                 /\ \A r \in (PhaseRank(call.op) + 1)..(PhaseRank(call'.op) - 1) :
                        ~PhaseOn(r)
       /\ idx' # idx => (idx' = idx + 1 /\ pc = "for")]_vars
C10_Witness ==
    /\ idx = 2 /\ call.op = "tap" /\ call.acct = 2
    /\ both > 0 /\ user_stats.initial_level # None
    /\ user_stats.damage_upgrades > 0 /\ user_stats.limit_upgrades > 0

\* C11: one account is processed per line of the token file that is not empty
\* once trimmed: a remote call is made only with a token that is not empty, and
\* at the end of the batch the accounts that were handed to process_account
\* are as many as the non-empty lines.
NonEmptyLines == {k \in 1..Len(tokens) : Strip(tokens[k]) # ""}
C11_OneAccountPerNonEmptyLine ==
    /\ call.op # "none" => token # ""
    /\ pc = "login" => token # ""
    /\ pc = "done" => idx = Cardinality(NonEmptyLines)

\* C12: with the token file missing or unreadable no account is processed and
\* no remote call is issued: the batch goes from its start to its end.
C12_MissingFileAborts ==
    tokens = NoFile => (call = NoCall /\ idx = 0 /\ pc \in {"start", "done"})
C12_Witness == tokens = NoFile /\ pc = "done"

\* C13: in an iteration where the threshold check fired, a refill that
\* succeeds sends the loop back to its top, whose next call is the boost pass
\* or the status fetch, never a tap; a refill that fails (no REFILL_ENERGY
\* boost with available > 0 in the list, or a failed purchase) ends the loop
\* in the switch-account state, and no call for that account follows.
C13_RefillOutcome ==
    [][/\ call'.op = "refill_fetch" =>
              \/ /\ pc' = "refill_buy"
                 /\ boosts'[bi'].type = "REFILL_ENERGY" /\ boosts'[bi'].available > 0
              \/ exit' = "raised"
              \/ pc' = "finish" /\ exit' = "switch"
       /\ call'.op = "refill_buy" =>
              IF call'.out = "ok" THEN pc' = "ap_top" /\ exit' = "none"
              ELSE pc' = "finish" /\ exit' = "switch"
       /\ (call.op = "refill_buy" /\ call.out = "ok") =>
              call'.op \in {"boosts_fetch", "status"}
       /\ exit = "switch" => call'.op = "none"]_vars
C13_Witness ==
    /\ exit = "switch" /\ pc = "finish"
    /\ call.op = "refill_buy" /\ call.out = "error"

\* C14: one counter serves the status fetches and the taps: a failed fetch or
\* a failed tap adds 1 to it (or ends the loop when that makes 5), an answered
\* tap sets it to 0, an answered status fetch or a successful refill leaves it
\* as it is; so while the loop runs the counter is the number of failed
\* fetches and taps since the last answered tap.
AutoPlayPcs == {"ap_top", "ap_status", "boost_active", "boost_buy",
                "refill_fetch", "refill_buy", "freeze", "tap"}
C14_SharedCounter ==
    [][/\ (call'.op \in {"status", "tap"} /\ call'.out \in {"error", "empty_body"}) =>
              IF consecutive_failures + 1 >= max_consecutive_failures
                THEN exit' = "failure" /\ pc' = "finish"
                ELSE consecutive_failures' = consecutive_failures + 1 /\ pc' = "ap_top"
       /\ (call'.op = "tap" /\ call'.out = "ok") => consecutive_failures' = 0
       /\ (call'.op = "status" /\ call'.out = "ok") =>
              consecutive_failures' = consecutive_failures
       /\ (call'.op = "refill_buy" /\ call'.out = "ok") =>
              consecutive_failures' = consecutive_failures
       /\ pc' \in AutoPlayPcs => consecutive_failures' = fails']_vars
C14_Witness ==
    /\ call.op = "refill_buy" /\ call.out = "ok"
    /\ consecutive_failures > 0 /\ pc = "ap_top"

\* C16: use_boost issues the purchase call exactly when the service holds no
\* active boost of the type, whatever the outcome of the listing call, a
\* failed listing included.
C16_NoPurchaseWhenActive ==
    call.op = "boost_active" =>
        (pc = "boost_buy" <=> call.out \in {"inactive", "error"})

\* C17: in one run of process_missions the complete calls go to missions of
\* strictly increasing position, so each mission gets at most one; a claim
\* call is issued only right after the same mission's complete call reported
\* success, once; whatever the outcome, the next call goes to a later mission.
C17_MissionOnce ==
    [][/\ call'.op = "mission_complete" =>
              /\ pc = "mission_complete"
              /\ pc' = "mission_claim" <=> call'.out = "success"
              /\ pc' = "mission_claim" => mi' = mi
              /\ pc' = "mission_complete" => mi' > mi
       /\ call'.op = "mission_claim" =>
              /\ call.op = "mission_complete" /\ call.out = "success"
              /\ call.acct = call'.acct
              /\ pc' # "mission_claim"
              /\ pc' = "mission_complete" => mi' > mi]_vars
C17_Witness ==
    /\ call.op = "mission_claim" /\ call.out = "error"
    /\ pc = "mission_complete" /\ mi = 2

\* C18: a purchase that fails ends its own loop only: after a failed level
\* purchase the tapping-upgrade block runs if it is switched on, after a failed
\* damage purchase the limit loop starts if a limit upgrade was found and
\* purchases of it were requested, and after a failed purchase in any of the
\* three loops the account goes on to the summary and auto-tap if switched on.
C18_LoopsIndependent ==
    [][/\ (call'.op = "level_buy" /\ call'.out # "201") =>
              pc' = IF Lower(auto_upgrade_tapping) = "y" THEN "upgrades_fetch"
                    ELSE IF Lower(auto_tapping) = "y" THEN "ap_top" ELSE "finish"
       /\ (call'.op = "damage_buy" /\ call'.out # "201") =>
              pc' = IF upgrades.limit # None /\ limit_upgrade_count > 0 THEN "limit_buy"
                    ELSE IF Lower(auto_tapping) = "y" THEN "ap_top" ELSE "finish"
       /\ (call'.op = "limit_buy" /\ call'.out # "201") =>
              pc' = IF Lower(auto_tapping) = "y" THEN "ap_top" ELSE "finish"
       /\ (call'.op \in {"level_buy", "damage_buy", "limit_buy"}) => exit' = "none"]_vars
C18_Witness ==
    /\ call.op = "damage_buy" /\ call.out = "402" /\ pc = "limit_buy"
    /\ user_stats.initial_level # None
    /\ user_stats.final_level = user_stats.initial_level

\* C15: against a service with finitely many refill boosts, where every
\* answered tap raises the click count and the limit stays as it is, the
\* auto-tap loop, once entered, ends in one of its three terminal states
\* whatever status fetches and taps fail.
C15_AutoPlayTerminates ==
    (pc \in AutoPlayPcs) ~> (exit \in {"failure", "switch", "frozen"})
C15_Witness ==
    /\ server # None /\ exit = "switch"
    /\ TheValue(server).refills = 0 /\ user_stats.taps_performed > 2

C20_NoFreezeWithoutNegativeLimit ==
    /\ pc = "freeze" => TheValue(status).totalClicksLimit < 0
    /\ (call.op = "status" /\ call.out = "ok"
        /\ TheValue(status).totalClicksLimit >= 0
        /\ TheValue(status).currentClickedCount >= TheValue(status).totalClicksLimit)
          => pc = "refill_fetch"
    /\ call.op = "freeze" => exit = "frozen"
    /\ exit = "frozen" => call.op \in {"freeze", "none"}
C20_Witness ==
    /\ call.op = "status"
    /\ status = Some([currentClickedCount |-> 100, totalClicksLimit |-> 100])
    /\ pc = "refill_fetch"


\* C21: a purchase of the REFILL_ENERGY boost, by use_refill_boost or by the
\* periodic use_available_boosts pass, is issued only while the account's
\* click count is at or above refill_threshold of its limit.
C21_RefillOnlyNearLimit ==
    [][(/\ server # None
        /\ call'.op \in {"boost_buy", "refill_buy"}
        /\ boosts[bi].type = "REFILL_ENERGY") =>
            NearLimit(TheValue(server).clicks, TheValue(server).limit)]_vars


\* C22: a list-levels call that fails or answers with an empty list is
\* followed by no level purchase and leaves initial_level and final_level
\* unset; a list-tapping-upgrades call that fails, or lists no damage (resp.
\* energy-limit) upgrade, is followed by no purchase of that type; in each case
\* nothing is raised and the account goes on: from the levels to the tapping
\* upgrades if they are switched on, and from there to the summary and to
\* auto-tap if it is switched on.
C22_EmptyListingsSkipPurchases ==
    [][/\ (call'.op = "levels_fetch" /\ call'.out \in {"error", "empty"}) =>
              /\ pc' = IF Lower(auto_upgrade_tapping) = "y" THEN "upgrades_fetch"
                       ELSE IF Lower(auto_tapping) = "y" THEN "ap_top" ELSE "finish"
              /\ user_stats'.initial_level = None /\ user_stats'.final_level = None
              /\ exit' = "none"
       /\ call'.op = "level_buy" =>
              \/ call.op = "levels_fetch" /\ call.out = "ok"
              \/ call.op = "level_buy" /\ call.out = "201"
       /\ (user_stats.initial_level = None /\ user_stats'.initial_level # None) =>
              call'.op = "levels_fetch" /\ call'.out = "ok"
       /\ (user_stats.final_level = None /\ user_stats'.final_level # None) =>
              call'.op = "levels_fetch" /\ call'.out = "ok"
       /\ (call'.op = "upgrades_fetch"
             /\ call'.out \in {"error", "empty", "neither", "damage", "energy"}) =>
              /\ pc' = IF call'.out = "damage" /\ damage_upgrade_count > 0 THEN "damage_buy"
                       ELSE IF call'.out = "energy" /\ limit_upgrade_count > 0 THEN "limit_buy"
                       ELSE IF Lower(auto_tapping) = "y" THEN "ap_top" ELSE "finish"
              /\ exit' = "none"
       /\ call'.op = "damage_buy" =>
              \/ call.op = "upgrades_fetch" /\ call.out \in {"damage", "both"}
              \/ call.op = "damage_buy" /\ call.out = "201"
       /\ call'.op = "limit_buy" =>
              \/ call.op = "upgrades_fetch" /\ call.out \in {"energy", "both"}
              \/ call.op = "damage_buy" /\ upgrades.limit # None
              \/ call.op = "limit_buy" /\ call.out = "201"
       /\ (call.op = "upgrades_fetch" /\ call.out = "damage") =>
              call'.op # "limit_buy"
       /\ (call'.op = "damage_buy" /\ upgrades.limit = None) =>
              pc' \in {"damage_buy",
                       IF Lower(auto_tapping) = "y" THEN "ap_top" ELSE "finish"}]_vars
C22_Witness ==
    /\ call.op = "upgrades_fetch" /\ call.out = "neither"
    /\ user_stats.initial_level = None /\ user_stats.final_level = None
    /\ Lower(auto_upgrade) = "y" /\ pc = "ap_top" /\ exit = "none"

====
